---------------------------- MODULE Spec2Model ----------------------------
(***************************************************************************)
(* A model of the regular-expression compiler and matcher of r.py and      *)
(* nfa.py: the recursive-descent parser, the construction of the automaton *)
(* from the syntax tree, the subset-simulation matcher and the identifier  *)
(* generator.                                                              *)
(*                                                                         *)
(* A pattern and an input string are sequences of one-character strings.   *)
(* A State is the tuple of its ids (State.ids); an automaton is a record   *)
(* of its four constructor fields, and the attribute `current` that accept *)
(* stores on the automaton object is the variable current.                 *)
(***************************************************************************)
EXTENDS Integers, Sequences, FiniteSets, TLC

\* ------------------------------------------------------------------ bounds
MaxPatLen   == 4    \* longest pattern drawn freely over the pattern alphabet
MaxStarLen  == 3    \* longest P in the patterns "(" P ")*"
MaxInputLen == 2    \* longest input string given to accept
MaxConcLen  == 1    \* longest pattern of the concurrent-matching specification
MaxConcInputLen == 1 \* longest input of the concurrent-matching specification
NCallers    == 2    \* concurrent callers of accept
NThreads    == 2    \* concurrent callers of generate
MaxGen      == 2    \* generate calls per thread
MaxCatLen   == 2    \* longest P1 and P2 in the patterns "(" P1 ")(" P2 ")"
NEpsStates  == 2    \* states of the automata given to _with_epsilon alone
NFresh      == 3    \* fresh states created for merging
MaxMergeLen == 4    \* most ids of two states that are merged
MaxPool     == 6    \* most states kept for merging
MaxSrcLen   == 3    \* longest text drawn freely over the interpreter's alphabet

\* --------------------------------------------------------------- alphabets
Literals  == {"a", "b"}
Meta      == {"(", ")", "|", "*"}
PatChars  == Literals \cup Meta
InChars   == {"a", "b"}
ConcChars == {"a", "b"}

RECURSIVE SeqsUpTo(_, _)
SeqsUpTo(S, n) ==
    IF n = 0 THEN {<< >>}
    ELSE LET shorter == SeqsUpTo(S, n - 1)
         IN  shorter \cup {Append(q, c) : q \in shorter, c \in S}

StarText(P) == <<"(">> \o P \o <<")", "*">>

CatText(P1, P2) == <<"(">> \o P1 \o <<")", "(">> \o P2 \o <<")">>

Texts      == SeqsUpTo(PatChars, MaxPatLen)
                 \cup {StarText(P) : P \in SeqsUpTo(PatChars, MaxStarLen)}
CatTexts   == {CatText(P1, P2) : P1, P2 \in SeqsUpTo(PatChars, MaxCatLen)}
Inputs     == SeqsUpTo(InChars, MaxInputLen)
ConcTexts  == SeqsUpTo(Literals, MaxConcLen)
ConcInputs == SeqsUpTo(ConcChars, MaxConcInputLen)

\* ------------------------------------------------------------ syntax tree
None == [type |-> "None"]                       \* Python's None
CharNode(char)       == [type |-> "Char", char |-> char]
GroupNode(node)      == [type |-> "Group", node |-> node]
StarNode(node)       == [type |-> "Star", node |-> node]
ConcatNode(lhs, rhs) == [type |-> "Concat", lhs |-> lhs, rhs |-> rhs]
UnionNode(lhs, rhs)  == [type |-> "Union", lhs |-> lhs, rhs |-> rhs]

\* truth value of a node: CharNode.__bool__, GroupNode.__bool__, the default
\* truth of an object for the other node classes, False for None
RECURSIVE Bool(_)
Bool(node) ==
    CASE node.type = "None"  -> FALSE
      [] node.type = "Char"  -> node.char # ""
      [] node.type = "Group" -> Bool(node.node)
      [] OTHER               -> TRUE

\* the text of a tree: the __repr__ of the node classes, as characters
RECURSIVE node_repr(_)
node_repr(node) ==
    CASE node.type = "None"   -> <<"N", "o", "n", "e">>
      [] node.type = "Char"   -> IF node.char = "" THEN << >> ELSE <<node.char>>
      [] node.type = "Group"  -> <<"(">> \o node_repr(node.node) \o <<")">>
      [] node.type = "Star"   -> node_repr(node.node) \o <<"*">>
      [] node.type = "Concat" -> node_repr(node.lhs) \o node_repr(node.rhs)
      [] node.type = "Union"  -> node_repr(node.lhs) \o <<"|">> \o node_repr(node.rhs)

\* ----------------------------------------------------------------- parser
NoChar == "None"                                \* Parser.cur past the end
NoFault == "none"

cur(text, position) ==
    IF position < Len(text) THEN text[position + 1] ELSE NoChar

epsilon == CharNode("")

Ok(node, position) == [node |-> node, position |-> position, fault |-> NoFault]
Raise(fault, position) == [node |-> None, position |-> position, fault |-> fault]

RECURSIVE union(_, _)
RECURSIVE concat(_, _)
RECURSIVE concat_loop(_, _, _)
RECURSIVE factor_or_star(_, _)
RECURSIVE factor(_, _)

factor(text, position) ==
    LET c == cur(text, position) IN
    IF c \in {NoChar, ")"} THEN Ok(epsilon, position)
    ELSE IF c = "(" THEN
        LET re == union(text, position + 1) IN
        IF re.fault # NoFault THEN re
        ELSE IF cur(text, re.position) # ")"
             THEN Raise("AssertionError", re.position)
             ELSE Ok(GroupNode(re.node), re.position + 1)
    ELSE IF c \notin {"|", "*"} THEN Ok(CharNode(c), position + 1)
    ELSE Ok(None, position)

factor_or_star(text, position) ==
    LET f == factor(text, position) IN
    IF f.fault # NoFault THEN f
    ELSE IF cur(text, f.position) = "*"
         THEN Ok(StarNode(f.node), f.position + 1)
         ELSE f

concat_loop(text, lhs, position) ==
    LET rhs == factor_or_star(text, position) IN
    IF rhs.fault # NoFault THEN rhs
    ELSE IF Bool(rhs.node)
         THEN concat_loop(text, ConcatNode(lhs, rhs.node), rhs.position)
         ELSE Ok(lhs, rhs.position)

concat(text, position) ==
    LET lhs == factor_or_star(text, position) IN
    IF lhs.fault # NoFault THEN lhs
    ELSE concat_loop(text, lhs.node, lhs.position)

union(text, position) ==
    IF cur(text, position) = "|" THEN
        LET rest == union(text, position + 1) IN
        IF rest.fault # NoFault THEN rest
        ELSE Ok(UnionNode(epsilon, rest.node), rest.position)
    ELSE
        LET node == concat(text, position) IN
        IF node.fault # NoFault THEN node
        ELSE IF cur(text, node.position) = "|" THEN
            LET rest == union(text, node.position + 1) IN
            IF rest.fault # NoFault THEN rest
            ELSE Ok(UnionNode(node.node, rest.node), rest.position)
        ELSE node

parse(text) == union(text, 0)

\* ------------------------------------------------------- states, automata
State(id) == <<id>>                             \* a State with one fresh id

NFA(states, initial, transitions, acceptable) ==
    [states |-> states, initial |-> initial,
     transitions |-> transitions, acceptable |-> acceptable]

\* dict.get(key, set()): the destinations of key, the empty set without it
TransGet(transitions, key) ==
    IF key \in DOMAIN transitions THEN transitions[key] ELSE {}

\* {**f, **g}: the keys of both, g's value where both have the key
DictOverride(f, g) ==
    [k \in (DOMAIN f) \cup (DOMAIN g) |-> IF k \in DOMAIN g THEN g[k] ELSE f[k]]

\* the two update loops of __or__ and __add__ over a defaultdict(set)
DictUnion(f, g) ==
    [k \in (DOMAIN f) \cup (DOMAIN g) |-> TransGet(f, k) \cup TransGet(g, k)]

nfa_or(self, other) ==
    NFA(self.states \cup other.states,
        self.initial \cup other.initial,
        DictUnion(self.transitions, other.transitions),
        self.acceptable \cup other.acceptable)

\* nfa_add with the left operand's accepting states kept accepting
nfa_add_keeps_acceptable(self, other) ==
    LET merged == DictUnion(self.transitions, other.transitions)
        bridge == IF other.initial = {} THEN {}
                  ELSE {<<a, "">> : a \in self.acceptable}
        transitions ==
            [k \in (DOMAIN merged) \cup bridge |->
                TransGet(merged, k)
                    \cup (IF k \in bridge THEN other.initial ELSE {})]
    IN  NFA(self.states \cup other.states, self.initial,
            transitions, self.acceptable \cup other.acceptable)

nfa_add(self, other) ==
    LET merged == DictUnion(self.transitions, other.transitions)
        bridge == IF other.initial = {} THEN {}
                  ELSE {<<a, "">> : a \in self.acceptable}
        transitions ==
            [k \in (DOMAIN merged) \cup bridge |->
                TransGet(merged, k)
                    \cup (IF k \in bridge THEN other.initial ELSE {})]
    IN  NFA(self.states \cup other.states, self.initial,
            transitions, other.acceptable)

\* --------------------------------------------- syntax tree -> automaton
\* to_nfa threads the generator's counter: id is IdGenerator._id before the
\* call, the result carries it after the call.
Built(nfa, id) == [nfa |-> nfa, id |-> id, fault |-> NoFault]
NoNFA == NFA({}, {}, << >>, {})
Failed(fault, id) == [nfa |-> NoNFA, id |-> id, fault |-> fault]

\* CharNode.to_nfa that leaves the entry states out of the states set
char_to_nfa_drops_initial(node, initial, id) ==
    LET s == State(id + 1) IN
    Built(NFA({s}, initial,
              [k \in {<<i, node.char>> : i \in initial} |-> {s}],
              {s}),
          id + 1)

char_to_nfa(node, initial, id) ==
    LET s == State(id + 1) IN
    Built(NFA(initial \cup {s}, initial,
              [k \in {<<i, node.char>> : i \in initial} |-> {s}],
              {s}),
          id + 1)

\* the dict display of StarNode.to_nfa: later entries replace earlier ones
star_transitions(nfa, initial) ==
    LET acceptable == initial IN
    DictOverride(
        DictOverride(nfa.transitions,
                     [k \in {<<i, "">> : i \in initial} |-> acceptable]),
        [k \in {<<a, "">> : a \in nfa.acceptable} |-> acceptable])

RECURSIVE to_nfa(_, _, _)
to_nfa(node, initial, id) ==
    CASE node.type = "None" -> Failed("AttributeError", id)
      [] node.type = "Char" -> char_to_nfa(node, initial, id)
      [] node.type = "Group" -> to_nfa(node.node, initial, id)
      [] node.type = "Star" ->
            LET r == to_nfa(node.node, initial, id) IN
            IF r.fault # NoFault THEN r
            ELSE Built(NFA(r.nfa.states, r.nfa.initial,
                           star_transitions(r.nfa, initial), initial),
                       r.id)
      [] node.type = "Concat" ->
            LET l == to_nfa(node.lhs, initial, id) IN
            IF l.fault # NoFault THEN l
            ELSE LET r == to_nfa(node.rhs, l.nfa.acceptable, l.id) IN
                 IF r.fault # NoFault THEN r
                 ELSE Built(nfa_add(l.nfa, r.nfa), r.id)
      [] node.type = "Union" ->
            LET l == to_nfa(node.lhs, initial, id) IN
            IF l.fault # NoFault THEN l
            ELSE LET r == to_nfa(node.rhs, initial, l.id) IN
                 IF r.fault # NoFault THEN r
                 ELSE Built(nfa_or(l.nfa, r.nfa), r.id)

\* Node.nfa: to_nfa from one fresh initial state
node_nfa(node, id) == to_nfa(node, {State(id + 1)}, id + 1)

\* ---------------------------------------------------------------- matcher
\* one pass of _with_epsilon that starts from the empty set, not from states
eps_after_successors_only(transitions, states) ==
    UNION {TransGet(transitions, <<s, "">>) : s \in states}

\* one pass of _with_epsilon: the set `after` when its loop ends
eps_after(transitions, states) ==
    states \cup UNION {TransGet(transitions, <<s, "">>) : s \in states}

RECURSIVE with_epsilon(_, _)
with_epsilon(transitions, states) ==
    LET after == eps_after(transitions, states)
    IN  IF after # states THEN with_epsilon(transitions, after) ELSE states

\* ------------------------------------------------------------------ merge
\* State(*ids): the ids sorted, repeated ids kept
state_of_ids(ids) == SortSeq(ids, LAMBDA x, y : x < y)

\* State.__mul__ that does not sort the ids
state_mul_unsorted(self, other) ==
    IF self = other THEN self ELSE self \o other

\* State.__mul__ (and __rmul__): the merge of two states
state_mul(self, other) ==
    IF self = other THEN self ELSE state_of_ids(self \o other)

\* accept_init that keeps the active set a previous call left on the object
accept_init_stale(nfa, active) ==
    IF active = << >> THEN with_epsilon(nfa.transitions, nfa.initial)
    ELSE active[1]

\* the first statement of accept: the active set an accept call starts from
\* (active is the value of the attribute `current` when the call starts)
accept_init(nfa, active) == with_epsilon(nfa.transitions, nfa.initial)

\* the lookup written as the subscript transitions[key]
TransSubscriptRaises(transitions, key) == key \notin DOMAIN transitions

\* dict.get never raises; a subscript transitions[key] would raise KeyError
TransRaises(transitions, key) == FALSE

\* the lookup written as the subscript transitions[key] on a defaultdict
TransSubscriptInserts(transitions, key) == key \notin DOMAIN transitions

\* dict.get adds no key; a subscript on a defaultdict(set) would add the key
TransInserts(transitions, key) == FALSE

\* the dict after the keys were looked up
after_lookups(transitions, keys) ==
    [k \in (DOMAIN transitions) \cup {q \in keys : TransInserts(transitions, q)}
        |-> TransGet(transitions, k)]

\* the keys _with_epsilon looks up until it returns closure
epsilon_keys(closure) == {<<s, "">> : s \in closure}

\* transit: the active set after one input symbol
transit(nfa, active, input) ==
    with_epsilon(nfa.transitions,
                 UNION {TransGet(nfa.transitions, <<s, input>>) : s \in active})

transit_raises(nfa, active, input) ==
    \E s \in active : TransRaises(nfa.transitions, <<s, input>>)

\* the return expression of accept
accept_result(nfa, active) == (active \cap nfa.acceptable) # {}

\* accept run from its first statement to its return without interruption, on
\* an automaton object that has no attribute `current` yet
RECURSIVE accept_loop(_, _, _)
accept_loop(nfa, active, inputs) ==
    IF inputs = << >> THEN active
    ELSE accept_loop(nfa, transit(nfa, active, Head(inputs)), Tail(inputs))

accept(nfa, inputs) ==
    accept_result(nfa, accept_loop(nfa, accept_init(nfa, << >>), inputs))

\* to_nfa(text) of r.py: parse, then Node.nfa, with a generator at `id`
text_to_nfa(pattern, id0) ==
    LET p == parse(pattern) IN
    IF p.fault # NoFault THEN Failed(p.fault, id0) ELSE node_nfa(p.node, id0)

\* ------------------------------------------- inter.py: the Source cursor
\* A Source is its index and its stack of saved indexes; blocks collects, for
\* every `with src:` block and every peek_char that has ended, the index and
\* the stack depth at its entry and at its exit.
Source0 == [index |-> 0, stack |-> << >>, blocks |-> {}]

Spaces   == {" "}
Letters  == {"a", "e", "f", "h", "i", "l", "n", "s", "t"}   \* of IdentifierNode.chars
Digits   == {"1"}                                            \* of NumberNode.numbers
Keywords == {<<"i", "f">>, <<"t", "h", "e", "n">>, <<"e", "l", "s", "e">>}

is_space(char) == char \in Spaces

src_next(s) == [s EXCEPT !.index = @ + 1]

\* Source.peek() with length 1
peek(T, s) == IF Len(T) < s.index + 1 THEN NoChar ELSE T[s.index + 1]

RECURSIVE skip_spaces(_, _)
skip_spaces(T, s) ==
    IF is_space(peek(T, s)) THEN skip_spaces(T, src_next(s)) ELSE s

save(s) == [s EXCEPT !.stack = Append(@, s.index)]

\* Source.restore that reads the saved index and leaves it on the stack
restore_keeps_saved(s) == [s EXCEPT !.index = s.stack[Len(s.stack)]]

restore(s) ==
    [s EXCEPT !.index = s.stack[Len(s.stack)],
              !.stack = SubSeq(s.stack, 1, Len(s.stack) - 1)]

advance(s) == [s EXCEPT !.stack = SubSeq(s.stack, 1, Len(s.stack) - 1)]

Block(kind, entry, failed, body, exit) ==
    [kind |-> kind, index0 |-> entry.index, depth0 |-> Len(entry.stack),
     failed |-> failed, body |-> body.index,
     index1 |-> exit.index, depth1 |-> Len(exit.stack)]

Record(s, block) == [s EXCEPT !.blocks = @ \cup {block}]

\* Rest applied to value, with value evaluated once, before Rest
Then(value, Rest(_)) == CHOOSE r \in {Rest(v) : v \in {value}} : TRUE

\* Source.peek_char() with length 1: the character and the Source afterwards
peek_char(T, s) ==
    Then(skip_spaces(T, save(s)), LAMBDA skipped :
    Then(restore(skipped), LAMBDA exit :
        [char |-> peek(T, skipped),
         src  |-> Record(exit, Block("peek", s, FALSE, skipped, exit))]))

\* the outcome of a parse method: a ParseError or a value, and the Source
ROk(val, s) == [err |-> FALSE, val |-> val, src |-> s]
RErr(s)     == [err |-> TRUE, val |-> << >>, src |-> s]

\* `with src:` around a body: __enter__ gives the body save(s); __exit__
\* restores on a ParseError and advances otherwise, the outcome passes through
with_exit(entry, body) ==
    Then(body, LAMBDA b :
    Then(IF b.err THEN restore(b.src) ELSE advance(b.src), LAMBDA exit :
        [b EXCEPT !.src = Record(exit, Block("with", entry, b.err, b.src, exit))]))

char_parse(T, s) ==
    Then(skip_spaces(T, s), LAMBDA skipped :
        IF peek(T, skipped) = NoChar THEN RErr(skipped)
        ELSE ROk(<<peek(T, skipped)>>, src_next(skipped)))

\* the loops `while <condition on src.peek()>: chars.append(CharNode.parse(src))`
RECURSIVE read_chars(_, _, _, _)
read_chars(T, s, allowed, chars) ==
    IF peek(T, s) \in allowed
    THEN Then(char_parse(T, s), LAMBDA c :
             read_chars(T, c.src, allowed, chars \o c.val))
    ELSE ROk(chars, s)

\* what src.peek() may be in KeywordNode.parse's loop: anything but None, space
WordChars(T) == {T[i] : i \in 1 .. Len(T)} \ Spaces

keyword_parse(T, s) ==
    Then(skip_spaces(T, s), LAMBDA skipped :
    Then(read_chars(T, skipped, WordChars(T), << >>), LAMBDA word :
        IF word.val \notin Keywords THEN RErr(word.src) ELSE word))

identifier_parse(T, s) ==
    Then(skip_spaces(T, s), LAMBDA skipped :
        IF peek(T, skipped) \notin Letters THEN RErr(skipped)
        ELSE Then(char_parse(T, skipped), LAMBDA first :
             Then(read_chars(T, first.src, Letters \cup Digits, first.val), LAMBDA word :
                 IF word.val \in Keywords THEN RErr(word.src) ELSE word)))

reference_parse(T, s) == identifier_parse(T, s)

RECURSIVE number_loop(_, _, _)
number_loop(T, s, numbers) ==
    Then(peek_char(T, s), LAMBDA p :
        IF p.char \in Digits
        THEN Then(char_parse(T, p.src), LAMBDA c :
                 number_loop(T, c.src, numbers \o c.val))
        ELSE ROk(numbers, p.src))

number_parse(T, s) ==
    Then(number_loop(T, s, << >>), LAMBDA n :
        IF n.val = << >> THEN RErr(peek_char(T, n.src).src) ELSE n)

RECURSIVE expression_parse(_, _)
RECURSIVE assignment_parse(_, _)
RECURSIVE if_then_else_parse(_, _)
RECURSIVE keyword_then_expression(_, _, _)
RECURSIVE arithmetic_parse(_, _)
RECURSIVE arithmetic_loop(_, _)
RECURSIVE term_parse(_, _)
RECURSIVE term_loop(_, _)
RECURSIVE factor_parse(_, _)
RECURSIVE factor_group(_, _)

\* the body of the first `with src:` of FactorNode.parse
factor_group(T, s) ==
    Then(char_parse(T, s), LAMBDA open :
        IF open.err THEN open
        ELSE IF open.val # <<"(">> THEN RErr(open.src)
        ELSE Then(expression_parse(T, open.src), LAMBDA exp :
            IF exp.err THEN exp
            ELSE Then(char_parse(T, exp.src), LAMBDA close :
                IF close.err THEN close
                ELSE IF close.val # <<")">> THEN RErr(close.src)
                ELSE close)))

factor_parse(T, s) ==
    Then(with_exit(s, factor_group(T, save(s))), LAMBDA group :
        IF ~group.err THEN group
        ELSE Then(with_exit(group.src, reference_parse(T, save(group.src))),
                  LAMBDA reference :
            IF ~reference.err THEN reference
            ELSE number_parse(T, reference.src)))

term_loop(T, s) ==
    Then(peek_char(T, s), LAMBDA p :
        IF p.char \in {"*", "/"}
        THEN Then(char_parse(T, p.src), LAMBDA sign :
            IF sign.err THEN sign
            ELSE Then(factor_parse(T, sign.src), LAMBDA f :
                IF f.err THEN f ELSE term_loop(T, f.src)))
        ELSE ROk(<< >>, p.src))

term_parse(T, s) ==
    Then(factor_parse(T, s), LAMBDA f :
        IF f.err THEN f ELSE term_loop(T, f.src))

arithmetic_loop(T, s) ==
    Then(peek_char(T, s), LAMBDA p :
        IF p.char \in {"+", "-"}
        THEN Then(char_parse(T, p.src), LAMBDA sign :
            IF sign.err THEN sign
            ELSE Then(term_parse(T, sign.src), LAMBDA t :
                IF t.err THEN t ELSE arithmetic_loop(T, t.src)))
        ELSE ROk(<< >>, p.src))

arithmetic_parse(T, s) ==
    Then(peek_char(T, s), LAMBDA p :
        IF p.char \notin {"+", "-"}
        THEN Then(term_parse(T, p.src), LAMBDA t :
            IF t.err THEN t ELSE arithmetic_loop(T, t.src))
        ELSE arithmetic_loop(T, p.src))

assignment_parse(T, s) ==
    Then(identifier_parse(T, s), LAMBDA identifier :
        IF identifier.err THEN identifier
        ELSE Then(char_parse(T, identifier.src), LAMBDA equal :
            IF equal.err THEN equal
            ELSE IF equal.val # <<"=">> THEN RErr(equal.src)
            ELSE expression_parse(T, equal.src)))

\* a keyword that must be kw, then an expression
keyword_then_expression(T, s, kw) ==
    Then(keyword_parse(T, s), LAMBDA k :
        IF k.err THEN k
        ELSE IF k.val # kw THEN RErr(k.src)
        ELSE expression_parse(T, k.src))

if_then_else_parse(T, s) ==
    Then(keyword_then_expression(T, s, <<"i", "f">>), LAMBDA if_exp :
        IF if_exp.err THEN if_exp
        ELSE Then(keyword_then_expression(T, if_exp.src, <<"t", "h", "e", "n">>),
                  LAMBDA then_exp :
            IF then_exp.err THEN then_exp
            ELSE keyword_then_expression(T, then_exp.src, <<"e", "l", "s", "e">>)))

expression_parse(T, s) ==
    Then(with_exit(s, assignment_parse(T, save(s))), LAMBDA assignment :
        IF ~assignment.err THEN assignment
        ELSE Then(with_exit(assignment.src,
                            if_then_else_parse(T, save(assignment.src))),
                  LAMBDA if_then_else :
            IF ~if_then_else.err THEN if_then_else
            ELSE arithmetic_parse(T, if_then_else.src)))

RECURSIVE block_loop(_, _)
block_loop(T, s) ==
    Then(peek_char(T, s), LAMBDA p :
        IF p.char = ";"
        THEN Then(char_parse(T, p.src), LAMBDA semi :
            IF semi.err THEN semi
            ELSE Then(peek_char(T, semi.src), LAMBDA q :
                IF q.char # NoChar
                THEN Then(expression_parse(T, q.src), LAMBDA e :
                    IF e.err THEN e ELSE block_loop(T, e.src))
                ELSE block_loop(T, q.src)))
        ELSE ROk(<< >>, p.src))

block_parse(T, s) ==
    Then(expression_parse(T, s), LAMBDA e :
        IF e.err THEN e ELSE block_loop(T, e.src))

\* the check of inter.parse after BlockNode.parse returned
end_check(T, s) ==
    Then(peek_char(T, s), LAMBDA p :
        IF p.char # NoChar THEN RErr(peek_char(T, p.src).src) ELSE ROk(<< >>, p.src))

\* ------------------------------------------------------------------ state
VARIABLES
    text,       \* the pattern given to to_nfa
    stage,      \* "parse", "compile", "ready" or "fault"
    tree,       \* the tree returned by parse
    position,   \* Parser.position when parse returned or raised
    fault,      \* the exception raised, NoFault without one
    nfa,        \* the compiled automaton: states, initial, transitions, acceptable
    current,    \* the attribute `current` of the automaton: Unset or <<set>>
    id,         \* IdGenerator._id
    cpc,        \* per accept caller: "idle", "loop", "returned" or "raised"
    cin,        \* per accept caller: the argument inputs
    cidx,       \* per accept caller: the symbols consumed so far
    cres,       \* per accept caller: the value returned
    snap,       \* per accept caller: the automaton object when the call started
    lock,       \* IdGenerator._lock: 0 when free, else the holding thread
    gpc,        \* per generate caller: position in generate
    gtmp,       \* per generate caller: the value loaded by `self._id += 1`
    gret,       \* per generate caller: the value loaded by `return self._id`
    gcalls,     \* per generate caller: calls started
    gprior,     \* per generate caller: values returned before the call started
    log,        \* the completed generate calls, in order of completion
    wpc,        \* _with_epsilon called alone: "idle", "run" or "done"
    wstart,     \* the argument states of the outermost _with_epsilon call
    wstates,    \* the argument states of the innermost call, at the end the result
    pool,       \* the State objects at hand for merging
    mpc,        \* "idle", or "merged" after a merge
    ma,         \* the left operand of the last merge
    mb,         \* the right operand of the last merge
    mr,         \* the result of the last merge
    source,     \* the text given to inter.parse
    sindex,     \* Source.index
    sstack,     \* Source.stack
    spc,        \* inter.parse: "start", "block", "returned" or "raised"
    sblocks     \* the `with src:` blocks and peek_char calls that have ended

reVars  == <<text, stage, tree, position, nfa>>
accVars == <<current, cpc, cin, cidx, cres, snap>>
genVars == <<lock, gpc, gtmp, gret, gcalls, gprior, log>>
epsVars == <<wpc, wstart, wstates>>
mrgVars == <<pool, mpc, ma, mb, mr>>
srcVars == <<source, sindex, sstack, spc, sblocks>>
auxVars == <<epsVars, mrgVars, srcVars>>
vars    == <<reVars, fault, id, accVars, genVars, auxVars>>

Callers == 1 .. NCallers
Threads == 1 .. NThreads

Unset == << >>                  \* the object has no attribute `current`
Attr(value) == <<value>>

\* the automaton object, field for field (its __dict__)
Object == [states |-> nfa.states, initial |-> nfa.initial,
           transitions |-> nfa.transitions, acceptable |-> nfa.acceptable,
           current |-> current]

\* everything but the pattern, the stage and the automaton
InitRest ==
    /\ tree = None
    /\ position = 0
    /\ fault = NoFault
    /\ current = Unset
    /\ id = 0
    /\ cpc = [c \in Callers |-> "idle"]
    /\ cin = [c \in Callers |-> << >>]
    /\ cidx = [c \in Callers |-> 0]
    /\ cres = [c \in Callers |-> FALSE]
    /\ snap = [c \in Callers |-> Object]
    /\ lock = 0
    /\ gpc = [t \in Threads |-> "idle"]
    /\ gtmp = [t \in Threads |-> 0]
    /\ gret = [t \in Threads |-> 0]
    /\ gcalls = [t \in Threads |-> 0]
    /\ gprior = [t \in Threads |-> {}]
    /\ log = << >>
    /\ wpc = "idle"
    /\ wstart = {}
    /\ wstates = {}
    /\ pool = {}
    /\ mpc = "idle"
    /\ ma = << >>
    /\ mb = << >>
    /\ mr = << >>
    /\ sindex = Source0.index
    /\ sstack = Source0.stack
    /\ spc = "start"
    /\ sblocks = Source0.blocks

InitCommon ==
    /\ source = << >>
    /\ stage = "parse"
    /\ nfa = NoNFA
    /\ InitRest

\* ----------------------------------------------------- parse and compile
Parse ==
    /\ stage = "parse"
    /\ LET r == parse(text) IN
        /\ position' = r.position
        /\ tree' = r.node
        /\ fault' = r.fault
        /\ stage' = IF r.fault # NoFault THEN "fault" ELSE "compile"
    /\ UNCHANGED <<text, nfa, id, accVars, genVars, auxVars>>

Compile ==
    /\ stage = "compile"
    /\ LET r == node_nfa(tree, id) IN
        /\ id' = r.id
        /\ fault' = r.fault
        /\ nfa' = r.nfa
        /\ stage' = IF r.fault # NoFault THEN "fault" ELSE "ready"
    /\ UNCHANGED <<text, tree, position, accVars, genVars, auxVars>>

\* ----------------------------------------------------------------- accept
AcceptBegin(c, inputs) ==
    /\ stage = "ready"
    /\ cpc[c] \in {"idle", "returned"}
    /\ snap' = [snap EXCEPT ![c] = Object]
    /\ current' = Attr(accept_init(nfa, current))
    /\ nfa' = [nfa EXCEPT !.transitions =
                  after_lookups(@, epsilon_keys(accept_init(nfa, current)))]
    /\ cin' = [cin EXCEPT ![c] = inputs]
    /\ cidx' = [cidx EXCEPT ![c] = 0]
    /\ cres' = [cres EXCEPT ![c] = FALSE]
    /\ cpc' = [cpc EXCEPT ![c] = "loop"]
    /\ UNCHANGED <<text, stage, tree, position, fault, id, genVars, auxVars>>

Transit(c) ==
    /\ cpc[c] = "loop"
    /\ cidx[c] < Len(cin[c])
    /\ LET input == cin[c][cidx[c] + 1] IN
        IF transit_raises(nfa, current[1], input)
        THEN /\ fault' = "KeyError"
             /\ cpc' = [cpc EXCEPT ![c] = "raised"]
             /\ UNCHANGED <<nfa, current, cidx>>
        ELSE /\ current' = Attr(transit(nfa, current[1], input))
             /\ nfa' = [nfa EXCEPT !.transitions =
                           after_lookups(@,
                               {<<s, input>> : s \in current[1]}
                                   \cup epsilon_keys(transit(nfa, current[1], input)))]
             /\ cidx' = [cidx EXCEPT ![c] = @ + 1]
             /\ UNCHANGED <<fault, cpc>>
    /\ UNCHANGED <<text, stage, tree, position, id, cin, cres, snap, genVars, auxVars>>

AcceptReturn(c) ==
    /\ cpc[c] = "loop"
    /\ cidx[c] = Len(cin[c])
    /\ cres' = [cres EXCEPT ![c] = accept_result(nfa, current[1])]
    /\ cpc' = [cpc EXCEPT ![c] = "returned"]
    /\ UNCHANGED <<reVars, fault, id, current, cin, cidx, snap, genVars, auxVars>>

\* --------------------------------------------------------------- generate
\* generate without mutual exclusion
LockIgnored(l) == TRUE

\* Lock.acquire returns when the lock is free
LockFree(l) == l = 0

GenCall(t) ==
    /\ gpc[t] = "idle"
    /\ gcalls[t] < MaxGen
    /\ gcalls' = [gcalls EXCEPT ![t] = @ + 1]
    /\ gprior' = [gprior EXCEPT ![t] = {log[i].val : i \in 1 .. Len(log)}]
    /\ gpc' = [gpc EXCEPT ![t] = "acquire"]
    /\ UNCHANGED <<reVars, fault, id, accVars, lock, gtmp, gret, log, auxVars>>

GenAcquire(t) ==
    /\ gpc[t] = "acquire"
    /\ LockFree(lock)
    /\ lock' = t
    /\ gpc' = [gpc EXCEPT ![t] = "load"]
    /\ UNCHANGED <<reVars, fault, id, accVars, gtmp, gret, gcalls, gprior, log, auxVars>>

GenLoad(t) ==
    /\ gpc[t] = "load"
    /\ gtmp' = [gtmp EXCEPT ![t] = id]
    /\ gpc' = [gpc EXCEPT ![t] = "store"]
    /\ UNCHANGED <<reVars, fault, id, accVars, lock, gret, gcalls, gprior, log, auxVars>>

GenStore(t) ==
    /\ gpc[t] = "store"
    /\ id' = gtmp[t] + 1
    /\ gpc' = [gpc EXCEPT ![t] = "value"]
    /\ UNCHANGED <<reVars, fault, accVars, lock, gtmp, gret, gcalls, gprior, log, auxVars>>

GenValue(t) ==
    /\ gpc[t] = "value"
    /\ gret' = [gret EXCEPT ![t] = id]
    /\ gpc' = [gpc EXCEPT ![t] = "release"]
    /\ UNCHANGED <<reVars, fault, id, accVars, lock, gtmp, gcalls, gprior, log, auxVars>>

GenRelease(t) ==
    /\ gpc[t] = "release"
    /\ lock' = 0
    /\ log' = Append(log, [val |-> gret[t], prior |-> gprior[t]])
    /\ gpc' = [gpc EXCEPT ![t] = "idle"]
    /\ gtmp' = [gtmp EXCEPT ![t] = 0]        \* the frame of the call is gone
    /\ gret' = [gret EXCEPT ![t] = 0]
    /\ gprior' = [gprior EXCEPT ![t] = {}]
    /\ UNCHANGED <<reVars, fault, id, accVars, gcalls, auxVars>>

\* --------------------------------------------------------- specifications
\* one pattern, parsed and compiled, then queried by one caller, call after call
Init == text \in Texts /\ InitCommon

Next ==
    \/ Parse
    \/ Compile
    \/ \E inputs \in Inputs : AcceptBegin(1, inputs)
    \/ Transit(1)
    \/ AcceptReturn(1)

Spec == Init /\ [][Next]_vars

\* one automaton queried by NCallers callers whose per-symbol steps interleave
InitConc == text \in ConcTexts /\ InitCommon

NextConc ==
    \/ Parse
    \/ Compile
    \/ \E c \in Callers, inputs \in ConcInputs : AcceptBegin(c, inputs)
    \/ \E c \in Callers : Transit(c)
    \/ \E c \in Callers : AcceptReturn(c)

SpecConc == InitConc /\ [][NextConc]_vars

\* as Spec, for the patterns "(" P1 ")(" P2 ")"
InitCat == text \in CatTexts /\ InitCommon

SpecCat == InitCat /\ [][Next]_vars

\* ------------------------------------------- _with_epsilon, call by call
EpsStates == {State(i) : i \in 1 .. NEpsStates}

\* the transition dicts over EpsStates: a state has no epsilon key or an
\* epsilon key with any destinations; the first state also has a transition on
\* the symbol "a" to every state
EpsDicts ==
    LET keys == {<<q, "">> : q \in EpsStates}
        eps  == UNION {[K -> SUBSET EpsStates] : K \in SUBSET keys}
    IN  {DictUnion(e, [k \in {<<State(1), "a">>} |-> EpsStates]) : e \in eps}

EpsCall(states) ==
    /\ wpc \in {"idle", "done"}
    /\ wstart' = states
    /\ wstates' = states
    /\ wpc' = "run"
    /\ UNCHANGED <<reVars, fault, id, accVars, genVars, mrgVars, srcVars>>

\* one call of _with_epsilon: it calls itself with `after`, or returns states
EpsStep ==
    /\ wpc = "run"
    /\ LET after == eps_after(nfa.transitions, wstates) IN
        IF after # wstates
        THEN wstates' = after /\ UNCHANGED wpc
        ELSE wpc' = "done" /\ UNCHANGED wstates
    /\ UNCHANGED <<reVars, fault, id, accVars, genVars, wstart, mrgVars, srcVars>>

\* an automaton constructed directly, as NFA(states, initial, transitions,
\* acceptable) at the end of nfa.py, and _with_epsilon called on it
InitEps ==
    /\ text = << >>
    /\ source = << >>
    /\ stage = "ready"
    /\ nfa \in {NFA(EpsStates, {State(1)}, t, {}) : t \in EpsDicts}
    /\ InitRest

NextEps ==
    \/ \E states \in SUBSET EpsStates : EpsCall(states)
    \/ EpsStep

\* a call that has begun runs on: weak fairness of the step
SpecEps == InitEps /\ [][NextEps]_vars /\ WF_vars(EpsStep)

\* ------------------------------------------------------ merging of states
\* State(): a state with a fresh id from the generator
NewState ==
    /\ id < NFresh
    /\ id' = id + 1
    /\ pool' = pool \cup {State(id + 1)}
    /\ UNCHANGED <<reVars, fault, accVars, genVars, epsVars, mpc, ma, mb, mr, srcVars>>

\* a * b for two states at hand; the result is kept for later merges
Merge(a, b) ==
    /\ Len(a) + Len(b) <= MaxMergeLen
    /\ Cardinality(pool \cup {state_mul(a, b)}) <= MaxPool
    /\ ma' = a
    /\ mb' = b
    /\ mr' = state_mul(a, b)
    /\ mpc' = "merged"
    /\ pool' = pool \cup {state_mul(a, b)}
    /\ UNCHANGED <<reVars, fault, id, accVars, genVars, epsVars, srcVars>>

InitMerge == text = << >> /\ InitCommon

NextMerge ==
    \/ NewState
    \/ \E a, b \in pool : Merge(a, b)

SpecMerge == InitMerge /\ [][NextMerge]_vars

\* ------------------------------------------------ the interpreter's parse
SrcChars == {"a", "1", "(", ")", "+", "*", "=", ";", " "}

IfText(c, t, e) ==
    <<"i", "f", " ">> \o c \o <<" ", "t", "h", "e", "n", " ">> \o t
        \o <<" ", "e", "l", "s", "e", " ">> \o e

\* the same without its else part
IfThenText(c, t) == <<"i", "f", " ">> \o c \o <<" ", "t", "h", "e", "n", " ">> \o t

IfOperands == {<<"1">>, <<"a">>, <<"(", "1", ")">>}

SrcTexts ==
    SeqsUpTo(SrcChars, MaxSrcLen)
        \cup {IfText(c, t, e) : c, t, e \in IfOperands}
        \cup {IfThenText(c, t) : c, t \in IfOperands}

TheSource == [index |-> sindex, stack |-> sstack, blocks |-> sblocks]

SrcSet(s) ==
    /\ sindex' = s.index
    /\ sstack' = s.stack
    /\ sblocks' = s.blocks

\* expr = BlockNode.parse(src)
SrcBlock ==
    /\ spc = "start"
    /\ LET r == block_parse(source, TheSource) IN
        /\ SrcSet(r.src)
        /\ spc' = IF r.err THEN "raised" ELSE "block"
    /\ UNCHANGED <<reVars, fault, id, accVars, genVars, epsVars, mrgVars, source>>

\* the check for text left over, then `return expr`
SrcEnd ==
    /\ spc = "block"
    /\ LET r == end_check(source, TheSource) IN
        /\ SrcSet(r.src)
        /\ spc' = IF r.err THEN "raised" ELSE "returned"
    /\ UNCHANGED <<reVars, fault, id, accVars, genVars, epsVars, mrgVars, source>>

InitSrc ==
    /\ text = << >>
    /\ source \in SrcTexts
    /\ stage = "parse"
    /\ nfa = NoNFA
    /\ InitRest

NextSrc ==
    \/ SrcBlock
    \/ SrcEnd

SpecSrc == InitSrc /\ [][NextSrc]_vars

InitGen == text = << >> /\ InitCommon

NextGen ==
    \/ \E t \in Threads : GenCall(t)
    \/ \E t \in Threads : GenAcquire(t)
    \/ \E t \in Threads : GenLoad(t)
    \/ \E t \in Threads : GenStore(t)
    \/ \E t \in Threads : GenValue(t)
    \/ \E t \in Threads : GenRelease(t)

SpecGen == InitGen /\ [][NextGen]_vars

\* ----------------------------------------------- vocabulary of the claims
\* parentheses balanced: never more closed than opened, all closed at the end
ParenDepth(P, k) ==
    Cardinality({i \in 1 .. k : P[i] = "("}) - Cardinality({i \in 1 .. k : P[i] = ")"})

Balanced(P) ==
    /\ \A k \in 0 .. Len(P) : ParenDepth(P, k) >= 0
    /\ ParenDepth(P, Len(P)) = 0

\* a star with no operand before it
BareStar(P) ==
    \E i \in 1 .. Len(P) :
        P[i] = "*" /\ (i = 1 \/ P[i - 1] \in {"|", "(", "*"})

\* well formed by the grammar: balanced, every star directly after a factor
WellFormed(P) == Balanced(P) /\ ~BareStar(P)

AllLiteral(P) == \A i \in 1 .. Len(P) : P[i] \in Literals

Prefix(P, k) == SubSeq(P, 1, k)
Suffix(P, k) == SubSeq(P, k + 1, Len(P))

\* the automaton compiled from pattern P, alone, accepts s
Matches(P, s) ==
    LET n == text_to_nfa(P, 0) IN n.fault = NoFault /\ accept(n.nfa, s)

\* s is a concatenation of zero or more strings that compile(P) accepts
RECURSIVE Repeats(_, _)
Repeats(P, s) ==
    \/ s = << >>
    \/ \E k \in 1 .. Len(s) : Matches(P, Prefix(s, k)) /\ Repeats(P, Suffix(s, k))

Returned(c) == stage = "ready" /\ cpc[c] = "returned"

\* ----------------------------------------------------------------- claims

\* C1: for well-formed P1 and P2, the automaton compiled from P1 "|" P2
\* accepts s exactly when the automaton of P1 or the automaton of P2 accepts s.
C1_UnionAcceptsEitherSide ==
    Returned(1) =>
        \A k \in 1 .. Len(text) :
            (/\ text[k] = "|"
             /\ WellFormed(Prefix(text, k - 1))
             /\ WellFormed(Suffix(text, k)))
            => (cres[1] <=> (\/ Matches(Prefix(text, k - 1), cin[1])
                             \/ Matches(Suffix(text, k), cin[1])))

\* C2: for well-formed P, the automaton compiled from "(" P ")*" accepts s
\* exactly when s is a concatenation of zero or more strings accepted by the
\* automaton of P.
C2_StarAcceptsRepetitions ==
    Returned(1) =>
        \A P \in SeqsUpTo(PatChars, MaxStarLen) :
            (text = StarText(P) /\ WellFormed(P))
            => (cres[1] <=> Repeats(P, cin[1]))

\* C3: the automaton of a pattern made only of literal characters (the empty
\* pattern included) accepts s exactly when s is the pattern itself.
C3_LiteralPatternMatchesItself ==
    (Returned(1) /\ AllLiteral(text)) => (cres[1] <=> (cin[1] = text))

\* C3 witness: a call on a two-character literal pattern returned FALSE for the
\* proper prefix of the pattern
C3_Witness ==
    /\ Returned(1) /\ AllLiteral(text) /\ Len(text) = 2
    /\ cin[1] = Prefix(text, 1)
    /\ ~cres[1]

\* C4: every accept call that ran interleaved with other accept calls on the
\* same automaton returns what it returns when run alone.
C4_ConcurrentCallsAgreeWithAlone ==
    \A c \in Callers :
        (stage = "ready" /\ cpc[c] = "returned")
            => (cres[c] <=> accept(nfa, cin[c]))

\* C5: when an accept call returns, the automaton object is field for field
\* what it was when the call started.
C5_AcceptWritesNoField ==
    Returned(1) => Object = snap[1]

\* C6: a call accept(x) made after any sequence of completed calls returns what
\* the first call accept(x) on a fresh automaton returns.
C6_ResultIndependentOfEarlierCalls ==
    Returned(1) => (cres[1] <=> accept(nfa, cin[1]))

\* C6 witness: a call returned TRUE although the call before it had left a
\* different active set on the automaton than a fresh call starts from
C6_Witness ==
    /\ Returned(1)
    /\ cres[1]
    /\ snap[1].current # Unset
    /\ snap[1].current # Attr(accept_init(nfa, Unset))
    /\ snap[1].current # current

\* C7: a pattern with unbalanced parentheses is never compiled to an automaton.
C7_UnbalancedParensRaise ==
    ~Balanced(text) => stage # "ready"

\* C8: for a pattern with a star that has no operand, parse raises: it returns
\* no tree, so no star node without operand, and compilation is not reached.
C8_BareStarRaisesInParser ==
    (BareStar(text) /\ stage # "parse")
        => (stage = "fault" /\ fault = "AssertionError")

\* C9: the values returned by generate are pairwise distinct, and each is
\* greater than every value returned by a call completed before its call began.
C9_GenerateDistinctAndIncreasing ==
    /\ \A i, j \in 1 .. Len(log) : i # j => log[i].val # log[j].val
    /\ \A i \in 1 .. Len(log) : \A v \in log[i].prior : log[i].val > v

\* C9 witness: all calls completed, one of them begun after another completed,
\* and two of them overlapping (the later to complete began before the earlier
\* completed)
C9_Witness ==
    /\ Len(log) = NThreads * MaxGen
    /\ \E i \in 1 .. Len(log) : log[i].prior # {}
    /\ \E i, j \in 1 .. Len(log) : i < j /\ log[i].val \notin log[j].prior

\* C10: accept raises nothing; once the active set is empty it stays empty for
\* every later symbol and the call returns FALSE.
C10_AcceptTotalAndEmptyIsFinal ==
    [][ /\ stage = "ready" => (fault' = NoFault /\ cpc'[1] # "raised")
        /\ (cpc[1] = "loop" /\ current = Attr({}))
              => /\ current' = Attr({})
                 /\ cpc'[1] = "returned" => ~cres'[1] ]_vars

\* C10 witness: a call returned FALSE after a symbol with no transition in the
\* automaton emptied the active set and a later symbol, which has a transition
\* from the initial state, was consumed
C10_Witness ==
    /\ Returned(1)
    /\ cin[1] = <<"b", "a">>
    /\ text = <<"a">>
    /\ current = Attr({})
    /\ ~cres[1]

\* C11: once the automaton is constructed, no accept call changes its states
\* set, initial set, transition relation (keys and destinations) or acceptable
\* set.
C11_MatchingLeavesStructureUnchanged ==
    [][stage = "ready" => nfa' = nfa]_vars

\* C11 witness: a call returned on an automaton built by concatenation or
\* union after consuming a symbol that has no transition from any state
C11_Witness ==
    /\ Returned(1)
    /\ tree.type \in {"Concat", "Union"}
    /\ \E i \in 1 .. Len(cin[1]) :
          \A q \in nfa.states : <<q, cin[1][i]>> \notin DOMAIN nfa.transitions

\* C12: for well-formed P1 and P2, the automaton compiled from
\* "(" P1 ")(" P2 ")" accepts s exactly when s = u v with u accepted by the
\* automaton of P1 and v accepted by the automaton of P2.
C12_ConcatAcceptsSplits ==
    Returned(1) =>
        \A k \in 2 .. Len(text) - 2 :
            (/\ text = CatText(SubSeq(text, 2, k - 1), SubSeq(text, k + 2, Len(text) - 1))
             /\ WellFormed(SubSeq(text, 2, k - 1))
             /\ WellFormed(SubSeq(text, k + 2, Len(text) - 1)))
            => (cres[1] <=>
                   \E j \in 0 .. Len(cin[1]) :
                       /\ Matches(SubSeq(text, 2, k - 1), Prefix(cin[1], j))
                       /\ Matches(SubSeq(text, k + 2, Len(text) - 1), Suffix(cin[1], j)))

\* every state an automaton refers to is one of its states
Closed(n) ==
    /\ n.initial \subseteq n.states
    /\ n.acceptable \subseteq n.states
    /\ \A k \in DOMAIN n.transitions :
          k[1] \in n.states /\ n.transitions[k] \subseteq n.states

\* C14: in every compiled automaton the sources and destinations of the
\* transitions, the initial states and the acceptable states are all members
\* of the states set.
C14_CompiledAutomatonClosed ==
    stage = "ready" => Closed(nfa)

\* C14 witness: an automaton compiled from a concatenation whose right part is
\* a star
C14_Witness ==
    /\ stage = "ready"
    /\ tree.type = "Concat"
    /\ tree.rhs.type = "Star"
    /\ Cardinality(nfa.states) >= 3

ParseReturned ==
    stage \in {"compile", "ready"} \/ (stage = "fault" /\ fault = "AttributeError")

\* C15: when parse returns for a well-formed pattern, the cursor is at the end
\* of the pattern.
C15_ParseConsumesWholePattern ==
    (WellFormed(text) /\ ParseReturned) => position = Len(text)

\* a tree shaped by the grammar: a star over one literal or group, a
\* concatenation of factors nested to the left with no union inside, a union
\* nested to the right, the empty literal only as an alternative, in a group or
\* alone
Factor(node) ==
    \/ node.type = "Char" /\ node.char # ""
    \/ node.type = "Group"
    \/ node.type = "Star"

RECURSIVE GrammarShaped(_)
GrammarShaped(node) ==
    CASE node.type = "None"   -> FALSE
      [] node.type = "Char"   -> TRUE
      [] node.type = "Group"  -> GrammarShaped(node.node)
      [] node.type = "Star"   ->
            /\ Factor(node.node) /\ node.node.type # "Star"
            /\ GrammarShaped(node.node)
      [] node.type = "Concat" ->
            /\ Factor(node.lhs) \/ node.lhs.type = "Concat"
            /\ Factor(node.rhs)
            /\ GrammarShaped(node.lhs) /\ GrammarShaped(node.rhs)
      [] node.type = "Union"  ->
            /\ node.lhs.type # "Union"
            /\ GrammarShaped(node.lhs) /\ GrammarShaped(node.rhs)

\* C16: the tree parse returns for a well-formed pattern is the tree of the
\* grammar: it spells the pattern and is shaped by the precedences.
C16_TreeFollowsGrammar ==
    (WellFormed(text) /\ ParseReturned)
        => (node_repr(tree) = text /\ GrammarShaped(tree))

\* the smallest superset of S within U that is closed under the epsilon
\* transitions of T: what every closed superset of S contains
LeastClosed(T, S, U) ==
    {q \in U :
        \A C \in SUBSET U :
            (S \subseteq C /\ \A c \in C : TransGet(T, <<c, "">>) \subseteq C)
                => q \in C}

\* C13: every call of _with_epsilon returns, also with a cycle of epsilon
\* transitions, and returns the smallest superset of its argument that is
\* closed under the epsilon transitions.
C13_EpsilonClosureTerminatesAndIsLeast ==
    (wpc = "run")
        ~> (wpc = "done"
            /\ wstates = LeastClosed(nfa.transitions, wstart, nfa.states))

\* C13 witness: a call returned both states from one of them, on an automaton
\* whose two states have epsilon transitions to each other
C13_Witness ==
    /\ wpc = "done"
    /\ wstart = {State(1)}
    /\ State(2) \in TransGet(nfa.transitions, <<State(1), "">>)
    /\ State(1) \in TransGet(nfa.transitions, <<State(2), "">>)
    /\ wstates = {State(1), State(2)}

Ids(q) == {q[i] : i \in 1 .. Len(q)}

\* C17: the merge of two different states has as identity the sorted union of
\* their ids, every id once.
C17_MergeIsSortedUnion ==
    (mpc = "merged" /\ ma # mb)
        => /\ Ids(mr) = Ids(ma) \cup Ids(mb)
           /\ \A i, j \in 1 .. Len(mr) : i < j => mr[i] < mr[j]

\* C18: a state merged with itself is that state, and the merge of a and b is
\* equal to the merge of b and a.
C18_MergeIdempotentAndCommutative ==
    mpc = "merged"
        => /\ ma = mb => mr = ma
           /\ mr = state_mul(mb, ma)

\* C18 witness: two different composite states were merged, the left one with
\* the greater ids
C18_Witness ==
    /\ mpc = "merged"
    /\ ma # mb
    /\ Len(ma) >= 2 /\ Len(mb) >= 2
    /\ ma[1] > mb[1]

\* C19: every `with src:` block and every peek_char ends with the stack as
\* deep as at its entry; a block that failed with a ParseError, and peek_char,
\* ends with the index of its entry, a block that succeeded with the index its
\* body reached; and the stack is empty when parse has returned or raised.
C19_SaveStackBalanced ==
    /\ \A b \in sblocks :
        /\ b.depth1 = b.depth0
        /\ (b.kind = "peek" \/ b.failed) => b.index1 = b.index0
        /\ (b.kind = "with" /\ ~b.failed) => b.index1 = b.body
    /\ spc \in {"returned", "raised"} => sstack = << >>

\* C19 witness: parse returned after a nested block failed having advanced,
\* a nested block succeeded having advanced, and a peek_char skipped spaces
C19_Witness ==
    /\ spc = "returned"
    /\ \E b \in sblocks :
        b.kind = "with" /\ b.failed /\ b.depth0 >= 1 /\ b.body > b.index0
    /\ \E b \in sblocks :
        b.kind = "with" /\ ~b.failed /\ b.depth0 >= 1 /\ b.index1 > b.index0
    /\ \E b \in sblocks : b.kind = "peek" /\ b.body > b.index0

=============================================================================
